---- MODULE Spec2Model ----
(***************************************************************************)
(* GlobalMeshingHeap (src/src/globalmeshingheap.h) as a state machine.     *)
(*                                                                         *)
(* The global heap composes three collaborators whose code is not part of  *)
(* the header: MiniHeap, BinnedTracker and MeshableArena.  They are        *)
(* modelled from their contracts; everything the header itself does is     *)
(* translated from the header.                                             *)
(*                                                                         *)
(* A thread executes one operation at a time.  An operation is cut into    *)
(* steps at the places where the code acquires a lock or touches shared    *)
(* state without one, so that a single thread gives the sequential         *)
(* semantics and several threads give the interleavings.                   *)
(***************************************************************************)
EXTENDS Integers, Sequences, FiniteSets, TLC

(***************************************************************************)
(* Bounds of the model.                                                    *)
(***************************************************************************)
MaxMH == 3          \* MiniHeap objects ever constructed
MaxMHCtl == 1       \* ... in the runs that exercise the control channel
MaxMHMT == 1        \* ... in the runs with two threads
MaxMHReuse == 2     \* ... in the runs of the front-end and free alone
MaxLive == 4        \* live MiniHeaps in the heaps a pass is tried on
NObj == 2           \* object slots per span (nObjects)
MaxBig == 1         \* large objects outstanding at a time
MaxPeriod == 2      \* largest mesh.check_period written or used as default
SizeTBits == 3      \* width of size_t in the model
MaxMeshStat == 2    \* passes are not started once stats.meshCount reached this

(***************************************************************************)
(* Program constants.                                                      *)
(***************************************************************************)
NumBins == 1                     \* template parameter NumBins
MaxMeshes == 2                   \* internal::MaxMeshes
SizeofSizeT == 8                 \* sizeof(size_t)
SizeTMod == 2 ^ SizeTBits        \* size_t arithmetic is modulo this

Classes == 0 .. (NumBins - 1)
MaxIds == MaxLive * MaxMeshes     \* enough ids for every run
MHIds == 1 .. MaxIds
NoMH == 0                        \* nullptr for MiniHeap *
Slots == 0 .. (NObj - 1)
Spans == 1 .. MaxIds              \* one span per MiniHeap: the arena never runs out
NoThread == 0

\* getClassMaxSize: object size of a size class
getClassMaxSize(c) == 16 * (2 ^ c)

(***************************************************************************)
(* Pointers.  A small pointer is a slot of a span of the arena, a big      *)
(* pointer is an object of the big heap, and there is the null pointer.    *)
(***************************************************************************)
SmallPtr(s, k) == [kind |-> "small", a |-> s, b |-> k]
BigPtr(i) == [kind |-> "big", a |-> i, b |-> 0]
NullPtr == [kind |-> "null", a |-> 0, b |-> 0]

(***************************************************************************)
(* MiniHeap objects.                                                       *)
(***************************************************************************)
UnbornMH == [status |-> "unborn", sizeClass |-> 0, bitmap |-> {}, spans |-> << >>,
             attached |-> NoThread, refcount |-> 0]
\* ~MiniHeapBase() followed by memset(mhp, 66, sizeof(MiniHeap))
DeadMH == [status |-> "dead", sizeClass |-> 0, bitmap |-> {}, spans |-> << >>,
           attached |-> NoThread, refcount |-> 0]

MiniHeapNew(c, span) ==
    [status |-> "live", sizeClass |-> c, bitmap |-> {}, spans |-> << span >>,
     attached |-> NoThread, refcount |-> 0]

meshCountOf(m) == Len(m.spans)
isEmpty(m) == m.bitmap = {}
isAttached(m) == m.attached # NoThread
isFull(m) == m.bitmap = Slots
\* occupancy below the cutoff and not attached to a front-end
isMeshingCandidate(m) == ~isAttached(m) /\ ~isFull(m)

Range(s) == {s[i] : i \in 1 .. Len(s)}

VARIABLES
    mhs,            \* MiniHeap objects, by id
    created,        \* number of MiniHeap objects constructed so far
    owner,          \* the arena's span -> owner map
    littleheaps,    \* _littleheaps: per class, the tracked heaps and the
                    \* empty ones awaiting release
    stats,          \* _stats
    meshPeriod,     \* _meshPeriod
    nextMeshCheck,  \* _nextMeshCheck
    bigheap,        \* live objects of _bigheap
    mhWriter,       \* thread holding _mhRWLock exclusively, or NoThread
    bigOwner,       \* thread holding _bigMutex, or NoThread
    cfg,            \* the run: its threads, the MiniHeap objects it may construct
    pc,             \* per thread: where it is
    loc,            \* per thread: the locals of the operation it is in
    ev,             \* the last step taken: operation, thread, result
    passLog         \* what performMeshing did in the last pass

heapVars == << mhs, created, owner, littleheaps, stats, meshPeriod, nextMeshCheck, bigheap >>
vars == << mhs, created, owner, littleheaps, stats, meshPeriod, nextMeshCheck, bigheap,
           mhWriter, bigOwner, cfg, pc, loc, ev, passLog >>

(***************************************************************************)
(* Size classes.  getSizeClass and getClassMaxSize are template arguments; *)
(* a miniheap's object size is the maximum size of its class.              *)
(***************************************************************************)
getSizeClass(sz) ==
    IF \E c \in Classes : sz <= getClassMaxSize(c)
    THEN CHOOSE c \in Classes : sz <= getClassMaxSize(c)
                                /\ \A d \in Classes : sz <= getClassMaxSize(d) => c <= d
    ELSE NumBins
objectSize(m) == getClassMaxSize(m.sizeClass)

(***************************************************************************)
(* The heap's structural state as one value, so that the handlers can be   *)
(* composed the way the code composes them.                                *)
(***************************************************************************)
Heap == [mhs |-> mhs, owner |-> owner, lh |-> littleheaps, stats |-> stats]

(***************************************************************************)
(* MeshableArena (contract).                                               *)
(***************************************************************************)
arenaLookup(own, ptr) == IF ptr.kind = "small" THEN own[ptr.a] ELSE NoMH
arenaMalloc(own) ==
    CHOOSE s \in Spans : own[s] = NoMH /\ \A s2 \in Spans : own[s2] = NoMH => s <= s2
arenaAssoc(own, s, mh) == [own EXCEPT ![s] = mh]
arenaFree(own, ss) == [s \in Spans |-> IF s \in ss THEN NoMH ELSE own[s]]
\* mesh(keep, remove, sz): remove's pages now share keep's and belong to keep's owner
arenaMesh(own, keep, remove) == [own EXCEPT ![remove] = own[keep]]
inUseCount(own) == Cardinality({s \in Spans : own[s] # NoMH})

(***************************************************************************)
(* BinnedTracker (contract).                                               *)
(***************************************************************************)
EmptyTracker == [bins |-> {}, empty |-> {}]
trackerAdd(lh, c, mh) == [lh EXCEPT ![c].bins = @ \cup {mh}]
trackerRemove(lh, c, mh) == [lh EXCEPT ![c].bins = @ \ {mh}, ![c].empty = @ \ {mh}]
\* the heaps selectForReuse may return: partially empty, unattached, not
\* already marked for release
reusable(h, c) ==
    {mh \in h.lh[c].bins \ h.lh[c].empty :
        ~isAttached(h.mhs[mh]) /\ ~isFull(h.mhs[mh])}
\* postFree(mh): drops the reference taken by the lookup and, when mh is
\* empty and no front-end holds it, marks it for release
postFreeEffect(h, c, mh) ==
    LET m == h.mhs[mh]
        marked == isEmpty(m) /\ ~isAttached(m) /\ mh \in h.lh[c].bins
    IN [h EXCEPT !.mhs[mh].refcount = @ - 1,
                 !.lh[c].empty = IF marked THEN @ \cup {mh} ELSE @ \ {mh}]
\* the values postFree may return: flushing is advised only when something
\* is marked
flushAdvised(h, c) == IF h.lh[c].empty = {} THEN {FALSE} ELSE BOOLEAN

(***************************************************************************)
(* MiniHeap (contract).                                                    *)
(***************************************************************************)
\* dst->consume(src): dst takes over src's live slots and span references
consume(h, dst, src) ==
    [h EXCEPT !.mhs[dst].bitmap = @ \cup h.mhs[src].bitmap,
              !.mhs[dst].spans = @ \o h.mhs[src].spans]

(***************************************************************************)
(* GlobalMeshingHeap: the helpers that run with the lock held.             *)
(***************************************************************************)
trackMiniheapLocked(h, c, mh) == [h EXCEPT !.lh = trackerAdd(h.lh, c, mh)]

untrackMiniheapLocked(h, c, mh) ==
    [h EXCEPT !.stats.mhAllocCount = (@ - 1) % SizeTMod,
              !.lh = trackerRemove(h.lh, c, mh)]

freeMiniheapAfterMeshLocked(h, mh, untrack) ==
    LET c == getSizeClass(objectSize(h.mhs[mh]))
        h1 == IF untrack THEN untrackMiniheapLocked(h, c, mh) ELSE h
    IN [h1 EXCEPT !.mhs[mh] = DeadMH]

\* freeMiniheap counting down instead of up
freeMiniheapLockedCountDown(h, mh, untrack) ==
    LET m == h.mhs[mh]
        h1 == [h EXCEPT !.owner = arenaFree(h.owner, Range(m.spans)),
                        !.stats.mhFreeCount = (@ - 1) % SizeTMod]
    IN freeMiniheapAfterMeshLocked(h1, mh, untrack)

\* freeMiniheap, the part under the exclusive lock
freeMiniheapLocked(h, mh, untrack) ==
    LET m == h.mhs[mh]
        h1 == [h EXCEPT !.owner = arenaFree(h.owner, Range(m.spans)),
                        !.stats.mhFreeCount = (@ + 1) % SizeTMod]
    IN freeMiniheapAfterMeshLocked(h1, mh, untrack)

\* the loop stopping one span short
RECURSIVE meshSpansShort(_, _, _)
meshSpansShort(own, dstSpanStart, srcSpans) ==
    IF Len(srcSpans) <= 1 THEN own
    ELSE meshSpansShort(arenaMesh(own, dstSpanStart, Head(srcSpans)), dstSpanStart,
                        Tail(srcSpans))

RECURSIVE meshSpans(_, _, _)
\* for (i < srcMeshCount) Super::mesh(dstSpanStart, srcSpans[i], dstSpanSize)
meshSpans(own, dstSpanStart, srcSpans) ==
    IF srcSpans = << >> THEN own
    ELSE meshSpans(arenaMesh(own, dstSpanStart, Head(srcSpans)), dstSpanStart,
                   Tail(srcSpans))

\* the MaxMeshes test letting one mesh too many through
meshRefusedLate(h, dst, src) ==
    meshCountOf(h.mhs[dst]) + meshCountOf(h.mhs[src]) > MaxMeshes + 1

\* if (dst->meshCount() + src->meshCount() > internal::MaxMeshes) return
meshRefused(h, dst, src) ==
    meshCountOf(h.mhs[dst]) + meshCountOf(h.mhs[src]) > MaxMeshes

meshLocked(h, dst, src) ==
    IF meshRefused(h, dst, src) THEN h
    ELSE LET h1 == consume(h, dst, src)
             dstSpanStart == h1.mhs[dst].spans[1]
             srcSpans == h1.mhs[src].spans
             h2 == [h1 EXCEPT !.owner = meshSpans(h1.owner, dstSpanStart, srcSpans)]
             h3 == postFreeEffect(h2, getSizeClass(objectSize(h2.mhs[dst])), dst)
         IN freeMiniheapAfterMeshLocked(h3, src, TRUE)

\* merge into the one with a larger mesh count
\* the swap putting the smaller mesh count first
orderPairSmallerFirst(h, p) ==
    IF meshCountOf(h.mhs[p[1]]) > meshCountOf(h.mhs[p[2]]) THEN << p[2], p[1] >> ELSE p

orderPair(h, p) ==
    IF meshCountOf(h.mhs[p[1]]) < meshCountOf(h.mhs[p[2]]) THEN << p[2], p[1] >> ELSE p

RECURSIVE performMeshing(_, _)
\* returns the heap after the loop and, per pair, what was done with it
performMeshing(h, mergeSets) ==
    IF mergeSets = << >> THEN [h |-> h, log |-> << >>]
    ELSE LET p == orderPair(h, Head(mergeSets))
             e == [first |-> Head(mergeSets)[1], second |-> Head(mergeSets)[2],
                   dst |-> p[1], src |-> p[2],
                   dstCount |-> meshCountOf(h.mhs[p[1]]),
                   srcCount |-> meshCountOf(h.mhs[p[2]]),
                   srcSpans |-> Range(h.mhs[p[2]].spans),
                   srcBitmap |-> h.mhs[p[2]].bitmap]
             r == performMeshing(meshLocked(h, p[1], p[2]), Tail(mergeSets))
         IN [h |-> r.h, log |-> << e >> \o r.log]

(***************************************************************************)
(* The meshing trigger.                                                    *)
(***************************************************************************)
\* the values resetNextMeshCheck may leave in _nextMeshCheck
resetNextMeshCheck(period, nmc) == IF period = 0 THEN {nmc} ELSE 1 .. period

\* _nextMeshCheck--, the value stored for the value loaded
decrement(loaded) == (loaded - 1) % SizeTMod

\* shouldMesh without the test of the period
shouldMeshAnyPeriod(period, nmc) ==
    LET sm == nmc = 0
    IN [ret |-> sm, nexts |-> IF sm THEN resetNextMeshCheck(period, nmc) ELSE {nmc}]

\* shouldMesh after its decrement: the result for the value it reads from
\* _nextMeshCheck and the values it may leave there
shouldMesh(period, nmc) ==
    LET sm == period > 0 /\ nmc = 0
    IN [ret |-> sm, nexts |-> IF sm THEN resetNextMeshCheck(period, nmc) ELSE {nmc}]

(***************************************************************************)
(* The control channel.                                                    *)
(***************************************************************************)
Names == {"mesh.check_period", "mesh.compact", "arena", "stats.resident",
          "stats.active", "stats.allocated"}
UnknownName == "no.such.name"
Untouched == -1                       \* the caller's buffer as it was before the call
BigObjectBytes == 2 * getClassMaxSize(NumBins - 1)
PssKiB == {1}                         \* what internal::measurePssKiB may report

McArgs(name, oldp, oldlenp, oldlen, newp, newlen, newVal) ==
    [name |-> name, oldp |-> oldp, oldlenp |-> oldlenp, oldlen |-> oldlen,
     newp |-> newp, newlen |-> newlen, newVal |-> newVal]

\* the calls tried: well-formed ones and each kind of misuse
MallctlCalls ==
    LET ns == Names \cup {UnknownName}
    IN    {McArgs(n, TRUE, TRUE, SizeofSizeT, FALSE, 0, 0) : n \in ns}
     \cup {McArgs(n, TRUE, TRUE, SizeofSizeT, TRUE, SizeofSizeT, 1) : n \in ns}
     \cup {McArgs("mesh.check_period", TRUE, TRUE, SizeofSizeT, TRUE, SizeofSizeT, v) :
              v \in 0 .. MaxPeriod}
     \cup {McArgs(n, TRUE, TRUE, SizeofSizeT, TRUE, SizeofSizeT - 4, 1) : n \in ns}
     \cup {McArgs(n, FALSE, TRUE, SizeofSizeT, TRUE, SizeofSizeT, 1) : n \in ns}
     \cup {McArgs(n, TRUE, FALSE, SizeofSizeT, TRUE, SizeofSizeT, 1) : n \in ns}
     \cup {McArgs(n, TRUE, TRUE, SizeofSizeT - 4, TRUE, SizeofSizeT, 1) : n \in ns}
\* the one call the allocator's own workload makes
CompactCall == McArgs("mesh.compact", TRUE, TRUE, SizeofSizeT, FALSE, 0, 0)
HeapCalls == {CompactCall}
\* the two calls that read the size of the big heap's arena
BigCalls == {McArgs(n, TRUE, TRUE, SizeofSizeT, FALSE, 0, 0) :
                n \in {"stats.active", "stats.allocated"}}

nonEmptyCount(h, c) == Cardinality({mh \in h.lh[c].bins : ~isEmpty(h.mhs[mh])})
allocatedObjectCount(h, c) ==
    LET RECURSIVE sum(_)
        sum(S) == IF S = {} THEN 0
                  ELSE LET x == CHOOSE y \in S : TRUE
                       IN Cardinality(h.mhs[x].bitmap) + sum(S \ {x})
    IN sum(h.lh[c].bins)
RECURSIVE sumClasses(_, _)
sumClasses(f, n) == IF n = 0 THEN 0 ELSE f[n - 1] + sumClasses(f, n - 1)

statsActive(h, big) ==
    Cardinality(big) * BigObjectBytes
    + sumClasses([c \in Classes |-> nonEmptyCount(h, c) * getClassMaxSize(c) * NObj],
                 NumBins)
statsAllocated(h, big) ==
    Cardinality(big) * BigObjectBytes
    + sumClasses([c \in Classes |->
                     IF nonEmptyCount(h, c) = 0 THEN 0
                     ELSE getClassMaxSize(c) * allocatedObjectCount(h, c)],
                 NumBins)

\* mallctl: the result, the caller's buffer, the new period, whether
\* _nextMeshCheck is reseeded and whether a pass is run
McResult(ret, out, period, reseed, compact) ==
    [ret |-> ret, out |-> out, period |-> period, reseed |-> reseed, compact |-> compact]

mallctl(h, big, period, a, pss) ==
    IF ~a.oldp \/ ~a.oldlenp \/ a.oldlen < SizeofSizeT
    THEN McResult(-1, Untouched, period, FALSE, FALSE)
    ELSE IF a.name = "mesh.check_period"
    THEN IF ~a.newp \/ a.newlen < SizeofSizeT
         THEN McResult(-1, period, period, FALSE, FALSE)
         ELSE McResult(0, period, a.newVal, TRUE, FALSE)
    ELSE IF a.name = "mesh.compact" THEN McResult(0, Untouched, period, FALSE, TRUE)
    ELSE IF a.name = "arena" THEN McResult(0, Untouched, period, FALSE, FALSE)
    ELSE IF a.name = "stats.resident" THEN McResult(0, pss * 1024, period, FALSE, FALSE)
    ELSE IF a.name = "stats.active"
    THEN McResult(0, statsActive(h, big), period, FALSE, FALSE)
    ELSE IF a.name = "stats.allocated"
    THEN McResult(0, statsAllocated(h, big), period, FALSE, FALSE)
    ELSE McResult(0, Untouched, period, FALSE, FALSE)

(***************************************************************************)
(* Threads.                                                                *)
(***************************************************************************)
AllThreads == {1, 2}
NoArgs == McArgs("", FALSE, FALSE, 0, FALSE, 0, 0)
NoLoc == [mh |-> NoMH, ptr |-> NullPtr, consider |-> FALSE, szClass |-> 0,
          flushing |-> {}, after |-> "idle", arg |-> NoArgs, sz |-> 0, nmc |-> 0]
\* what the last step handed back: the operation, the thread, the result,
\* the caller's output buffer, the arguments of a mallctl, and whether the
\* call ran meshAllSizeClasses
EvP(op, t, ret, out, a, meshed) ==
    [op |-> op, t |-> t, ret |-> ret, out |-> out, arg |-> a, meshed |-> meshed]
EvM(op, t, ret, out, a) == EvP(op, t, ret, out, a, FALSE)
Ev(op, t, ret, out) == EvM(op, t, ret, out, NoArgs)
\* a step that hands nothing back to its caller
Step(t) == Ev("step", t, 0, Untouched)
\* MiniHeap objects the run may construct
Limit == cfg.maxMH

SetHeap(h) ==
    /\ mhs' = h.mhs
    /\ owner' = h.owner
    /\ littleheaps' = h.lh
    /\ stats' = h.stats

Goto(t, p) == pc' = [pc EXCEPT ![t] = p]
Idle(t) == t \in cfg.threads /\ pc[t] = "idle"

\* threads inside a shared_lock section of _mhRWLock that spans steps
SharedHolders == {t \in AllThreads : pc[t] = "free_in_postFree"}
\* unique_lock / lock() on _mhRWLock can be taken
CanLockExclusive == mhWriter = NoThread /\ SharedHolders = {}
\* shared_lock on _mhRWLock can be taken
CanLockShared == mhWriter = NoThread

\* abort() or a fault: the process is gone
Aborted == [t \in AllThreads |-> "aborted"]

\* the MiniHeap a thread got from miniheapFor has been destroyed since
Dangling(t) == loc[t].mh # NoMH /\ mhs[loc[t].mh].status # "live"

\* the heap right after construction
InitEmpty ==
    /\ mhs = [i \in MHIds |-> UnbornMH]
    /\ created = 0
    /\ owner = [s \in Spans |-> NoMH]
    /\ littleheaps = [c \in Classes |-> EmptyTracker]
    /\ stats = [meshCount |-> 0, mhFreeCount |-> 0, mhAllocCount |-> 0,
                mhHighWaterMark |-> 0]
InitRest(periods) ==
    /\ meshPeriod \in periods                   \* DefaultMeshPeriod
    /\ nextMeshCheck \in resetNextMeshCheck(meshPeriod, 0)
    /\ bigheap = {}
    /\ mhWriter = NoThread
    /\ bigOwner = NoThread
    /\ pc = [t \in AllThreads |-> "idle"]
    /\ loc = [t \in AllThreads |-> NoLoc]
    /\ ev = Ev("init", NoThread, 0, Untouched)
    /\ passLog = << >>

InitHeap(periods) == InitEmpty /\ InitRest(periods)
Cfg(ts, maxMH, maxStat, calls) ==
    [threads |-> ts, maxMH |-> maxMH, maxStat |-> maxStat, calls |-> calls]

\* one thread, the allocator's workload
Init == InitHeap({1}) /\ cfg = Cfg({1}, MaxMH, MaxMeshStat, HeapCalls)
\* one thread, the control channel and the meshing trigger
InitCtl ==
    /\ InitHeap(0 .. MaxPeriod)
    /\ cfg = Cfg({1}, MaxMHCtl, MaxMeshStat, MallctlCalls)
\* one thread, a pass tried on every heap of up to MaxLive miniheaps: heap i
\* of the n live ones has consumed mc[i] - 1 others (constructed right after
\* it, destroyed by the merge), holds the slots bm[i], and att is the one the
\* front-end is attached to, if any
PassFirst(mc, i) ==
    LET RECURSIVE before(_)
        before(j) == IF j = 0 THEN 0 ELSE mc[j] + before(j - 1)
    IN before(i - 1) + 1
InitPass ==
    \E n \in 2 .. MaxLive :
    \E mc \in [1 .. n -> 1 .. MaxMeshes], bm \in [1 .. n -> SUBSET Slots], att \in 0 .. n :
        LET first(i) == PassFirst(mc, i)
            total == PassFirst(mc, n) + mc[n] - 1
            live == {first(i) : i \in 1 .. n}
            idx(x) == CHOOSE i \in 1 .. n : first(i) <= x /\ x < first(i) + mc[i]
        IN /\ \A i \in 1 .. n : mc[i] > 1 /\ i # att => bm[i] # {}
           /\ InitRest({1})
           /\ mhs = [x \in MHIds |->
                        IF x > total THEN UnbornMH
                        ELSE IF x \notin live THEN DeadMH
                        ELSE [status |-> "live", sizeClass |-> 0, bitmap |-> bm[idx(x)],
                              spans |-> [k \in 1 .. mc[idx(x)] |-> x + k - 1],
                              attached |-> IF idx(x) = att THEN 1 ELSE NoThread,
                              refcount |-> 1 - mc[idx(x)]]]
           /\ created = total
           /\ owner = [s \in Spans |-> IF s > total THEN NoMH ELSE first(idx(s))]
           /\ littleheaps = [c \in Classes |->
                                IF c = 0 THEN [bins |-> live, empty |-> {}]
                                ELSE EmptyTracker]
           /\ stats = [meshCount |-> total - n, mhFreeCount |-> 0, mhAllocCount |-> n,
                       mhHighWaterMark |-> 0]
           /\ cfg = Cfg({1}, total, total - n + 1, HeapCalls)
\* one thread, the front-end and free alone
InitReuse == InitHeap({1}) /\ cfg = Cfg({1}, MaxMHReuse, MaxMeshStat, HeapCalls)
\* two threads on the big heap: no miniheap is ever made
InitBig == InitHeap({1}) /\ cfg = Cfg(AllThreads, 0, MaxMeshStat, BigCalls)
\* two threads
InitMT == InitHeap({1}) /\ cfg = Cfg(AllThreads, MaxMHMT, MaxMeshStat, HeapCalls)

(***************************************************************************)
(* The front-end (thread-local heap): it takes slots of the miniheap it    *)
(* is attached to and detaches from it before asking for another one.      *)
(***************************************************************************)
MallocSlot(t, mh, k) ==
    /\ Idle(t)
    /\ mhs[mh].status = "live" /\ mhs[mh].attached = t
    /\ k \notin mhs[mh].bitmap
    /\ mhs' = [mhs EXCEPT ![mh].bitmap = @ \cup {k}]
    /\ ev' = Ev("frontend", t, 0, Untouched)
    /\ UNCHANGED << created, owner, littleheaps, stats, meshPeriod, nextMeshCheck, bigheap,
                    mhWriter, bigOwner, cfg, pc, loc, passLog >>

Detach(t, mh) ==
    /\ Idle(t)
    /\ mhs[mh].status = "live" /\ mhs[mh].attached = t
    /\ mhs' = [mhs EXCEPT ![mh].attached = NoThread]
    /\ ev' = Ev("frontend", t, 0, Untouched)
    /\ UNCHANGED << created, owner, littleheaps, stats, meshPeriod, nextMeshCheck, bigheap,
                    mhWriter, bigOwner, cfg, pc, loc, passLog >>

(***************************************************************************)
(* allocMiniheap                                                           *)
(***************************************************************************)
\* existing->reattach(...)
allocReuse(h, t, existing) == [h EXCEPT !.mhs[existing].attached = t]

\* span from the arena, MiniHeap constructed, assoc, track, mhAllocCount++
allocCreate(h, t, c, mh) ==
    LET span == arenaMalloc(h.owner)
        h1 == [h EXCEPT !.mhs[mh] = [MiniHeapNew(c, span) EXCEPT !.attached = t],
                        !.owner = arenaAssoc(h.owner, span, mh)]
        h2 == trackMiniheapLocked(h1, c, mh)
    IN [h2 EXCEPT !.stats.mhAllocCount = (@ + 1) % SizeTMod]

\* allocMiniheap without the look into the tracker: always a new miniheap
AllocMiniheapFresh(t, c) ==
    /\ Idle(t)
    /\ CanLockExclusive
    /\ \A i \in MHIds : ~(mhs[i].status = "live" /\ mhs[i].attached = t
                          /\ mhs[i].sizeClass = c)
    /\ created < Limit
    /\ SetHeap(allocCreate(Heap, t, c, created + 1))
    /\ created' = created + 1
    /\ ev' = Ev("allocMiniheap", t, created + 1, Untouched)
    /\ UNCHANGED << meshPeriod, nextMeshCheck, bigheap, mhWriter, bigOwner, cfg, pc,
                    loc, passLog >>

AllocMiniheap(t, c) ==
    /\ Idle(t)
    /\ CanLockExclusive
    /\ \A i \in MHIds : ~(mhs[i].status = "live" /\ mhs[i].attached = t
                          /\ mhs[i].sizeClass = c)
    /\ IF reusable(Heap, c) # {}
       THEN /\ \E existing \in reusable(Heap, c) :
                 /\ SetHeap(allocReuse(Heap, t, existing))
                 /\ ev' = Ev("allocMiniheap", t, existing, Untouched)
            /\ created' = created
       ELSE /\ created < Limit
            /\ SetHeap(allocCreate(Heap, t, c, created + 1))
            /\ created' = created + 1
            /\ ev' = Ev("allocMiniheap", t, created + 1, Untouched)
    /\ UNCHANGED << meshPeriod, nextMeshCheck, bigheap, mhWriter, bigOwner, cfg, pc,
                    loc, passLog >>

(***************************************************************************)
(* malloc (large objects)                                                  *)
(***************************************************************************)
\* std::lock_guard<std::mutex> lock(_bigMutex), in malloc, free and getSize
BigLock(t, from, to) ==
    /\ t \in cfg.threads /\ pc[t] = from
    /\ bigOwner = NoThread
    /\ bigOwner' = t
    /\ Goto(t, to)
    /\ ev' = Step(t)
    /\ UNCHANGED << mhs, created, owner, littleheaps, stats, meshPeriod, nextMeshCheck,
                    bigheap, mhWriter, cfg, loc, passLog >>

maxObjectSize == getClassMaxSize(NumBins - 1)
\* the sizes malloc is tried with, on both sides of the boundary
MallocSizes == {1, maxObjectSize, maxObjectSize + 1}

\* the test letting the largest small size through to the big heap
mallocAbortsBelow(sz) == getClassMaxSize(getSizeClass(sz)) < maxObjectSize

\* if (sizeMax <= _maxObjectSize) abort()
mallocAborts(sz) == getClassMaxSize(getSizeClass(sz)) <= maxObjectSize

MallocAbort(t, sz) ==
    /\ Idle(t)
    /\ mallocAborts(sz)
    /\ pc' = Aborted
    /\ ev' = Ev("malloc.abort", t, sz, Untouched)
    /\ UNCHANGED << mhs, created, owner, littleheaps, stats, meshPeriod, nextMeshCheck,
                    bigheap, mhWriter, bigOwner, cfg, loc, passLog >>

MallocLock(t, sz) ==
    /\ Idle(t)
    /\ ~mallocAborts(sz)
    /\ Cardinality(bigheap) < MaxBig
    /\ bigOwner = NoThread
    /\ bigOwner' = t
    /\ Goto(t, "malloc_big")
    /\ loc' = [loc EXCEPT ![t].sz = sz]
    /\ ev' = Step(t)
    /\ UNCHANGED << mhs, created, owner, littleheaps, stats, meshPeriod, nextMeshCheck,
                    bigheap, mhWriter, cfg, passLog >>

\* return _bigheap.malloc(sz)
Malloc(t) ==
    /\ t \in cfg.threads /\ pc[t] = "malloc_big"
    /\ LET b == CHOOSE i \in 1 .. MaxBig : i \notin bigheap
       IN /\ bigheap' = bigheap \cup {b}
          /\ ev' = Ev("malloc", t, b, Untouched)
    /\ bigOwner' = NoThread
    /\ Goto(t, "idle")
    /\ loc' = [loc EXCEPT ![t] = NoLoc]
    /\ UNCHANGED << mhs, created, owner, littleheaps, stats, meshPeriod, nextMeshCheck,
                    mhWriter, cfg, passLog >>

(***************************************************************************)
(* miniheapFor, as the first step of free and getSize                      *)
(***************************************************************************)
\* pointers the caller may hold: live slots of the arena, live big objects
BeingFreed(ptr) ==
    \E u \in cfg.threads :
        /\ pc[u] \in {"free_mh", "free_lock_big", "free_big"}
        /\ \/ loc[u].ptr = ptr
           \/ /\ ptr.kind = "small" /\ loc[u].ptr.kind = "small"
              /\ loc[u].ptr.b = ptr.b /\ owner[loc[u].ptr.a] = owner[ptr.a]
LivePtrs ==
    {SmallPtr(s, k) : s \in {x \in Spans : owner[x] # NoMH}, k \in Slots}
    \cup {BigPtr(b) : b \in bigheap}
IsLive(ptr) ==
    /\ ptr.kind = "small" => ptr.b \in mhs[owner[ptr.a]].bitmap
    /\ ~BeingFreed(ptr)

miniheapFor(h, ptr) ==
    LET mh == arenaLookup(h.owner, ptr)
    IN [mh |-> mh,
        h |-> IF mh # NoMH THEN [h EXCEPT !.mhs[mh].refcount = @ + 1] ELSE h]

(***************************************************************************)
(* free                                                                    *)
(***************************************************************************)
FreeLookup(t, ptr) ==
    /\ Idle(t)
    /\ IsLive(ptr)
    /\ CanLockShared
    /\ LET r == miniheapFor(Heap, ptr)
       IN /\ SetHeap(r.h)
          /\ loc' = [loc EXCEPT ![t] = [NoLoc EXCEPT !.mh = r.mh, !.ptr = ptr]]
          /\ Goto(t, IF r.mh = NoMH THEN "free_lock_big" ELSE "free_mh")
    /\ ev' = Step(t)
    /\ UNCHANGED << created, meshPeriod, nextMeshCheck, bigheap, mhWriter, bigOwner,
                    cfg, passLog >>

FreeBigLock(t) == BigLock(t, "free_lock_big", "free_big")

\* _bigheap.free(ptr); return
FreeBig(t) ==
    /\ t \in cfg.threads /\ pc[t] = "free_big"
    /\ bigheap' = bigheap \ {loc[t].ptr.a}
    /\ bigOwner' = NoThread
    /\ loc' = [loc EXCEPT ![t] = NoLoc]
    /\ Goto(t, "idle")
    /\ ev' = Ev("free", t, 0, Untouched)
    /\ UNCHANGED << mhs, created, owner, littleheaps, stats, meshPeriod, nextMeshCheck,
                    mhWriter, cfg, passLog >>

\* a statement that dereferences a destroyed MiniHeap is undefined: the
\* process dies
Fault(t) ==
    /\ pc' = Aborted
    /\ ev' = Ev("fault", t, 0, Untouched)
    /\ UNCHANGED << mhs, owner, littleheaps, stats, loc >>

\* mh->free(ptr); shouldConsiderMesh = !mh->isEmpty(); on a destroyed
\* MiniHeap the process dies or goes on with what it read from freed memory
FreeMh(t) ==
    /\ t \in cfg.threads /\ pc[t] = "free_mh"
    /\ IF Dangling(t)
       THEN \/ Fault(t)
            \/ /\ \E garbage \in BOOLEAN, c \in Classes :
                     loc' = [loc EXCEPT ![t].consider = garbage, ![t].szClass = c]
               /\ Goto(t, "free_postFree")
               /\ ev' = Step(t)
               /\ UNCHANGED << mhs, owner, littleheaps, stats >>
       ELSE /\ LET mh == loc[t].mh
                   m1 == [mhs[mh] EXCEPT !.bitmap = @ \ {loc[t].ptr.b}]
               IN /\ mhs' = [mhs EXCEPT ![mh] = m1]
                  /\ loc' = [loc EXCEPT ![t].consider = ~isEmpty(m1),
                                        ![t].szClass = getSizeClass(objectSize(m1))]
            /\ Goto(t, "free_postFree")
            /\ ev' = Step(t)
            /\ UNCHANGED << owner, littleheaps, stats >>
    /\ UNCHANGED << created, meshPeriod, nextMeshCheck, bigheap, mhWriter, bigOwner,
                    cfg, passLog >>

\* std::shared_lock<std::shared_timed_mutex> sharedLock(_mhRWLock)
FreePostFreeLock(t) ==
    /\ t \in cfg.threads /\ pc[t] = "free_postFree"
    /\ CanLockShared
    /\ Goto(t, "free_in_postFree")
    /\ ev' = Step(t)
    /\ UNCHANGED << mhs, created, owner, littleheaps, stats, meshPeriod, nextMeshCheck,
                    bigheap, mhWriter, bigOwner, cfg, loc, passLog >>

\* shouldFlush = _littleheaps[szClass].postFree(mh); mh = nullptr; the
\* shared lock is released at the end of the block
FreePostFree(t) ==
    /\ t \in cfg.threads /\ pc[t] = "free_in_postFree"
    /\ IF Dangling(t)
       THEN \/ Fault(t)
            \/ /\ Goto(t, "free_check")
               /\ loc' = [loc EXCEPT ![t].mh = NoMH, ![t].after = "free_check"]
               /\ ev' = Step(t)
               /\ UNCHANGED << mhs, owner, littleheaps, stats >>
       ELSE /\ LET mh == loc[t].mh
                   szClass == loc[t].szClass
                   h1 == postFreeEffect(Heap, szClass, mh)
               IN /\ SetHeap(h1)
                  /\ \E shouldFlush \in flushAdvised(h1, szClass) :
                        /\ Goto(t, IF shouldFlush THEN "flush" ELSE "free_check")
                        /\ loc' = [loc EXCEPT
                                      ![t].mh = NoMH,
                                      ![t].flushing = IF shouldFlush THEN {szClass} ELSE {},
                                      ![t].after = "free_check"]
            /\ ev' = Step(t)
    /\ UNCHANGED << created, meshPeriod, nextMeshCheck, bigheap, mhWriter, bigOwner,
                    cfg, passLog >>

\* if (!shouldConsiderMesh) return; otherwise shouldMesh() starts: the load
\* of _nextMeshCheck--, a plain size_t
FreeCheck(t) ==
    /\ t \in cfg.threads /\ pc[t] = "free_check"
    /\ IF ~loc[t].consider
       THEN /\ ev' = Ev("free", t, 0, Untouched)
            /\ loc' = [loc EXCEPT ![t] = NoLoc]
            /\ Goto(t, "idle")
       ELSE /\ ev' = Step(t)
            /\ loc' = [loc EXCEPT ![t].nmc = nextMeshCheck]
            /\ Goto(t, "free_dec")
    /\ UNCHANGED << mhs, created, owner, littleheaps, stats, meshPeriod, nextMeshCheck,
                    bigheap, mhWriter, bigOwner, cfg, passLog >>

\* the store of _nextMeshCheck--
FreeDec(t) ==
    /\ t \in cfg.threads /\ pc[t] = "free_dec"
    /\ nextMeshCheck' = decrement(loc[t].nmc)
    /\ loc' = [loc EXCEPT ![t].nmc = decrement(loc[t].nmc)]
    /\ Goto(t, "free_test")
    /\ ev' = Step(t)
    /\ UNCHANGED << mhs, created, owner, littleheaps, stats, meshPeriod, bigheap,
                    mhWriter, bigOwner, cfg, passLog >>

\* _meshPeriod > 0 && _nextMeshCheck == 0; resetNextMeshCheck() when true;
\* if (shouldMesh()) { /* nothing */ }
FreeTest(t) ==
    /\ t \in cfg.threads /\ pc[t] = "free_test"
    /\ LET r == shouldMesh(meshPeriod, nextMeshCheck)
       IN /\ nextMeshCheck' \in r.nexts
          /\ ev' = Ev("free.shouldMesh", t, IF r.ret THEN 1 ELSE 0, Untouched)
    /\ loc' = [loc EXCEPT ![t] = NoLoc]
    /\ Goto(t, "idle")
    /\ UNCHANGED << mhs, created, owner, littleheaps, stats, meshPeriod, bigheap,
                    mhWriter, bigOwner, cfg, passLog >>

(***************************************************************************)
(* BinnedTracker::flushFreeMiniheaps: every miniheap marked for release is *)
(* taken out of the tracker and handed to freeMiniheap(mh, false), which   *)
(* takes the exclusive lock.                                               *)
(***************************************************************************)
Marked(t) == UNION {littleheaps[c].empty : c \in loc[t].flushing}

FlushOne(t, mh) ==
    /\ t \in cfg.threads /\ pc[t] = "flush"
    /\ mh \in Marked(t)
    /\ CanLockExclusive
    /\ LET c == mhs[mh].sizeClass
           h1 == [Heap EXCEPT !.lh = trackerRemove(Heap.lh, c, mh)]
       IN SetHeap(freeMiniheapLocked(h1, mh, FALSE))
    /\ ev' = Step(t)
    /\ UNCHANGED << created, meshPeriod, nextMeshCheck, bigheap, mhWriter, bigOwner,
                    cfg, pc, loc, passLog >>

FlushDone(t) ==
    /\ t \in cfg.threads /\ pc[t] = "flush"
    /\ Marked(t) = {}
    /\ Goto(t, loc[t].after)
    /\ loc' = [loc EXCEPT ![t].after = "idle", ![t].flushing = {}]
    /\ ev' = Step(t)
    /\ UNCHANGED << mhs, created, owner, littleheaps, stats, meshPeriod, nextMeshCheck,
                    bigheap, mhWriter, bigOwner, cfg, passLog >>

(***************************************************************************)
(* freeMiniheap(mh), called directly with the default untrack = true       *)
(***************************************************************************)
FreeMiniheap(t, mh) ==
    /\ Idle(t)
    /\ mhs[mh].status = "live" /\ isEmpty(mhs[mh]) /\ ~isAttached(mhs[mh])
    /\ CanLockExclusive
    /\ SetHeap(freeMiniheapLocked(Heap, mh, TRUE))
    /\ ev' = Step(t)
    /\ UNCHANGED << created, meshPeriod, nextMeshCheck, bigheap, mhWriter, bigOwner,
                    cfg, pc, loc, passLog >>

(***************************************************************************)
(* getSize                                                                 *)
(***************************************************************************)
GetSizeNull(t) ==
    /\ Idle(t)
    /\ ev' = Ev("getSize", t, 0, Untouched)
    /\ UNCHANGED << mhs, created, owner, littleheaps, stats, meshPeriod, nextMeshCheck,
                    bigheap, mhWriter, bigOwner, cfg, pc, loc, passLog >>

GetSizeLookup(t, ptr) ==
    /\ Idle(t)
    /\ IsLive(ptr)
    /\ CanLockShared
    /\ LET r == miniheapFor(Heap, ptr)
       IN /\ SetHeap(r.h)
          /\ loc' = [loc EXCEPT ![t] = [NoLoc EXCEPT !.mh = r.mh, !.ptr = ptr]]
          /\ Goto(t, IF r.mh = NoMH THEN "getSize_lock_big" ELSE "getSize_mh")
    /\ ev' = Step(t)
    /\ UNCHANGED << created, meshPeriod, nextMeshCheck, bigheap, mhWriter, bigOwner,
                    cfg, passLog >>

\* size = mh->getSize(ptr); mh->unref()
GetSizeMh(t) ==
    /\ t \in cfg.threads /\ pc[t] = "getSize_mh"
    /\ IF Dangling(t)
       THEN \/ Fault(t) /\ mhs' = mhs
            \/ /\ mhs' = mhs
               /\ ev' = Ev("getSize", t, objectSize(mhs[loc[t].mh]), Untouched)
               /\ loc' = [loc EXCEPT ![t] = NoLoc]
               /\ Goto(t, "idle")
       ELSE /\ mhs' = [mhs EXCEPT ![loc[t].mh].refcount = @ - 1]
            /\ ev' = Ev("getSize", t, objectSize(mhs[loc[t].mh]), Untouched)
            /\ loc' = [loc EXCEPT ![t] = NoLoc]
            /\ Goto(t, "idle")
    /\ UNCHANGED << created, owner, littleheaps, stats, meshPeriod, nextMeshCheck, bigheap,
                    mhWriter, bigOwner, cfg, passLog >>

GetSizeBigLock(t) == BigLock(t, "getSize_lock_big", "getSize_big")

\* return _bigheap.getSize(ptr)
GetSizeBig(t) ==
    /\ t \in cfg.threads /\ pc[t] = "getSize_big"
    /\ ev' = Ev("getSize", t, BigObjectBytes, Untouched)
    /\ bigOwner' = NoThread
    /\ loc' = [loc EXCEPT ![t] = NoLoc]
    /\ Goto(t, "idle")
    /\ UNCHANGED << mhs, created, owner, littleheaps, stats, meshPeriod, nextMeshCheck,
                    bigheap, mhWriter, cfg, passLog >>

(***************************************************************************)
(* mallctl                                                                 *)
(***************************************************************************)
Mallctl(t, a) ==
    /\ Idle(t)
    /\ a \in cfg.calls
    /\ CanLockShared
    /\ \E pss \in PssKiB :
         LET r == mallctl(Heap, bigheap, meshPeriod, a, pss)
         IN /\ meshPeriod' = r.period
            /\ nextMeshCheck' \in IF r.reseed
                                  THEN resetNextMeshCheck(r.period, nextMeshCheck)
                                  ELSE {nextMeshCheck}
            /\ IF r.compact
               THEN /\ stats.meshCount < cfg.maxStat
                    /\ Goto(t, "mesh_lock")
                    /\ loc' = [loc EXCEPT ![t].arg = a]
                    /\ ev' = Step(t)
               ELSE /\ pc' = pc
                    /\ loc' = loc
                    /\ ev' = EvM("mallctl", t, r.ret, r.out, a)
    /\ UNCHANGED << mhs, created, owner, littleheaps, stats, bigheap, mhWriter, bigOwner,
                    cfg, passLog >>

\* sharedLock.lock() after the pass; return 0
MallctlRelock(t) ==
    /\ t \in cfg.threads /\ pc[t] = "mallctl_relock"
    /\ CanLockShared
    /\ Goto(t, "idle")
    /\ ev' = EvP("mallctl", t, 0, Untouched, loc[t].arg, TRUE)
    /\ loc' = [loc EXCEPT ![t] = NoLoc]
    /\ passLog' = << >>
    /\ UNCHANGED << mhs, created, owner, littleheaps, stats, meshPeriod, nextMeshCheck,
                    bigheap, mhWriter, bigOwner, cfg >>

(***************************************************************************)
(* meshAllSizeClasses                                                      *)
(***************************************************************************)
\* exclusiveLock(_mhRWLock); then flushFreeMiniheaps for every class
MeshLock(t) ==
    /\ t \in cfg.threads /\ pc[t] = "mesh_lock"
    /\ CanLockExclusive
    /\ mhWriter' = t
    /\ Goto(t, "flush")
    /\ loc' = [loc EXCEPT ![t].flushing = Classes, ![t].after = "mesh_pass"]
    /\ ev' = Step(t)
    /\ UNCHANGED << mhs, created, owner, littleheaps, stats, meshPeriod, nextMeshCheck,
                    bigheap, bigOwner, cfg, passLog >>

MaxPairs == MaxLive \div 2

\* what simpleGreedySplitting may offer for a class: pairs of tracked heaps
\* with disjoint bitmaps, no heap in two pairs
Meshable(h, c) ==
    {p \in h.lh[c].bins \X h.lh[c].bins :
        p[1] # p[2] /\ h.mhs[p[1]].bitmap \cap h.mhs[p[2]].bitmap = {}}
simpleGreedySplitting(h, c) ==
    {q \in UNION {[1 .. n -> Meshable(h, c)] : n \in 0 .. MaxPairs} :
        \A i, j \in 1 .. Len(q) : i # j => {q[i][1], q[i][2]} \cap {q[j][1], q[j][2]} = {}}

\* the meshFound lambda's test
meshFound(h, p) == isMeshingCandidate(h.mhs[p[1]]) /\ isMeshingCandidate(h.mhs[p[1]])

RECURSIVE sinkAll(_, _)
sinkAll(h, offered) ==
    IF offered = << >> THEN << >>
    ELSE (IF meshFound(h, Head(offered)) THEN << Head(offered) >> ELSE << >>)
         \o sinkAll(h, Tail(offered))

RECURSIVE concatClasses(_, _)
concatClasses(f, n) == IF n = 0 THEN << >> ELSE concatClasses(f, n - 1) \o f[n - 1]

\* the rest of the pass: candidates, meshCount, the world stopped, unlock
MeshPass(t) ==
    /\ t \in cfg.threads /\ pc[t] = "mesh_pass"
    /\ \E offers \in [Classes -> UNION {simpleGreedySplitting(Heap, c) : c \in Classes}] :
         /\ \A c \in Classes : offers[c] \in simpleGreedySplitting(Heap, c)
         /\ LET mergeSets == sinkAll(Heap, concatClasses(offers, NumBins))
            IN IF mergeSets = << >>
               THEN /\ UNCHANGED << mhs, owner, littleheaps, stats >>
                    /\ passLog' = << >>
                    /\ ev' = Step(t)
               ELSE LET h1 == [Heap EXCEPT !.stats.meshCount =
                                              (@ + Len(mergeSets)) % SizeTMod]
                        r == performMeshing(h1, mergeSets)
                    IN /\ SetHeap(r.h)
                       /\ passLog' = r.log
                       /\ ev' = Step(t)
    /\ mhWriter' = NoThread
    /\ Goto(t, "mallctl_relock")
    /\ loc' = loc
    /\ UNCHANGED << created, meshPeriod, nextMeshCheck, bigheap, bigOwner, cfg >>

(***************************************************************************)
(* lock / unlock                                                           *)
(***************************************************************************)
\* the two locks taken the other way round
lockOrderReversed == << "bigMutex", "mhRWLock" >>

\* the order in which lock() takes the two locks
lockOrder == << "mhRWLock", "bigMutex" >>

\* lock() exclusively on one of the two locks
Acquire(t, l) ==
    IF l = "mhRWLock"
    THEN CanLockExclusive /\ mhWriter' = t /\ bigOwner' = bigOwner
    ELSE bigOwner = NoThread /\ bigOwner' = t /\ mhWriter' = mhWriter

\* lock() taking _bigMutex alone
LockBigOnly(t) ==
    /\ Idle(t)
    /\ Acquire(t, "bigMutex")
    /\ Goto(t, "locked")
    /\ ev' = Step(t)
    /\ UNCHANGED << mhs, created, owner, littleheaps, stats, meshPeriod, nextMeshCheck,
                    bigheap, cfg, loc, passLog >>

\* lock(), first statement
Lock(t) ==
    /\ Idle(t)
    /\ Acquire(t, lockOrder[1])
    /\ Goto(t, "lock_second")
    /\ ev' = Step(t)
    /\ UNCHANGED << mhs, created, owner, littleheaps, stats, meshPeriod, nextMeshCheck,
                    bigheap, cfg, loc, passLog >>

\* lock(), second statement
LockSecond(t) ==
    /\ t \in cfg.threads /\ pc[t] = "lock_second"
    /\ Acquire(t, lockOrder[2])
    /\ Goto(t, "locked")
    /\ ev' = Step(t)
    /\ UNCHANGED << mhs, created, owner, littleheaps, stats, meshPeriod, nextMeshCheck,
                    bigheap, cfg, loc, passLog >>

\* _bigMutex.unlock(); _mhRWLock.unlock()
Unlock(t) ==
    /\ t \in cfg.threads /\ pc[t] = "locked"
    /\ bigOwner' = NoThread
    /\ mhWriter' = NoThread
    /\ Goto(t, "idle")
    /\ ev' = Step(t)
    /\ UNCHANGED << mhs, created, owner, littleheaps, stats, meshPeriod, nextMeshCheck,
                    bigheap, cfg, loc, passLog >>

(***************************************************************************)
(* dumpStrings, dumpStats, getAllocatedMiniheapCount                       *)
(***************************************************************************)
\* level < 1: dumpStats returns at once; otherwise, and for dumpStrings,
\* the exclusive lock is taken for the duration
Dump(t, op, level) ==
    /\ Idle(t)
    /\ (op = "dumpStrings" \/ level >= 1) => CanLockExclusive
    /\ ev' = Ev(op, t, level, Untouched)
    /\ UNCHANGED << mhs, created, owner, littleheaps, stats, meshPeriod, nextMeshCheck,
                    bigheap, mhWriter, bigOwner, cfg, pc, loc, passLog >>

\* Super::bitmap().inUseCount(), no lock taken
GetAllocatedMiniheapCount(t) ==
    /\ Idle(t)
    /\ ev' = Ev("getAllocatedMiniheapCount", t, inUseCount(owner), Untouched)
    /\ UNCHANGED << mhs, created, owner, littleheaps, stats, meshPeriod, nextMeshCheck,
                    bigheap, mhWriter, bigOwner, cfg, pc, loc, passLog >>

\* the steps of free, of the pass and of the front-end, shared by the runs
FreeSteps(t) ==
    \/ \E ptr \in LivePtrs : FreeLookup(t, ptr)
    \/ FreeMh(t)
    \/ FreePostFreeLock(t)
    \/ FreePostFree(t)
    \/ FreeCheck(t)
    \/ FreeDec(t)
    \/ FreeTest(t)
    \/ \E mh \in MHIds : FlushOne(t, mh)
PassSteps(t) ==
    \/ \E a \in MallctlCalls : Mallctl(t, a)
    \/ MeshLock(t)
    \/ FlushDone(t)
    \/ MeshPass(t)
    \/ MallctlRelock(t)
FrontEnd(t) ==
    \/ \E mh \in MHIds, k \in Slots : MallocSlot(t, mh, k)
    \/ \E mh \in MHIds : Detach(t, mh)
    \/ \E c \in Classes : AllocMiniheap(t, c)
BigSteps(t) ==
    \/ \E sz \in MallocSizes : MallocAbort(t, sz)
    \/ \E sz \in MallocSizes : MallocLock(t, sz)
    \/ Malloc(t)
    \/ FreeBigLock(t)
    \/ FreeBig(t)
GetSizeSteps(t) ==
    \/ GetSizeNull(t)
    \/ \E ptr \in LivePtrs : GetSizeLookup(t, ptr)
    \/ GetSizeMh(t)
    \/ GetSizeBigLock(t)
    \/ GetSizeBig(t)
LockSteps(t) ==
    \/ Lock(t)
    \/ LockSecond(t)
    \/ Unlock(t)
ReadSteps(t) ==
    \/ \E op \in {"dumpStrings", "dumpStats"}, level \in {0, 1} : Dump(t, op, level)
    \/ GetAllocatedMiniheapCount(t)

Next ==
    \E t \in AllThreads :
        \/ FrontEnd(t)
        \/ FreeSteps(t)
        \/ \E mh \in MHIds : FreeMiniheap(t, mh)
        \/ PassSteps(t)

NextCtl ==
    \E t \in AllThreads :
        \/ FrontEnd(t)
        \/ FreeSteps(t)
        \/ BigSteps(t)
        \/ GetSizeSteps(t)
        \/ PassSteps(t)

NextMT ==
    \E t \in AllThreads :
        \/ FrontEnd(t)
        \/ FreeSteps(t)
        \/ \E mh \in MHIds : FreeMiniheap(t, mh)
        \/ BigSteps(t)
        \/ GetSizeSteps(t)
        \/ PassSteps(t)
        \/ LockSteps(t)
        \/ ReadSteps(t)

NextPass == \E t \in AllThreads : PassSteps(t)

\* everything that touches the big heap
NextBig ==
    \E t \in AllThreads :
        \/ BigSteps(t)
        \/ \E ptr \in LivePtrs : FreeLookup(t, ptr)
        \/ \E ptr \in LivePtrs : GetSizeLookup(t, ptr)
        \/ GetSizeBigLock(t)
        \/ GetSizeBig(t)
        \/ \E a \in BigCalls : Mallctl(t, a)

\* the front-end and free, nothing else
NextReuse ==
    \E t \in AllThreads :
        \/ FrontEnd(t)
        \/ FreeSteps(t)

Spec == Init /\ [][Next]_vars
SpecPass == InitPass /\ [][NextPass]_vars
SpecCtl == InitCtl /\ [][NextCtl]_vars
SpecMT == InitMT /\ [][NextMT]_vars
SpecReuse == InitReuse /\ [][NextReuse]_vars
SpecBig == InitBig /\ [][NextBig]_vars

(***************************************************************************)
(* Properties.                                                             *)
(***************************************************************************)
LiveMiniheaps == {mh \in MHIds : mhs[mh].status = "live"}
Tracked == UNION {littleheaps[c].bins : c \in Classes}
AfterPass == \E t \in cfg.threads : pc[t] = "mallctl_relock"
\* the pairs of the last pass that meshLocked had room to merge
Merged == {i \in 1 .. Len(passLog) :
              passLog[i].dstCount + passLog[i].srcCount <= MaxMeshes}

\* C1: after meshLocked(dst, src) has merged two miniheaps, src is untracked
\* and destroyed, no address resolves to src through miniheapFor, every
\* address of a span src held resolves to dst, and dst carries the slots that
\* were live in src.
C1_MergeRetiresSrc ==
    AfterPass =>
        \A i \in Merged :
            LET e == passLog[i]
            IN /\ mhs[e.src] = DeadMH
               /\ e.src \notin Tracked
               /\ mhs[e.dst].status = "live"
               /\ \A s \in Spans, k \in Slots :
                      miniheapFor(Heap, SmallPtr(s, k)).mh # e.src
               /\ \A s \in e.srcSpans, k \in Slots :
                      miniheapFor(Heap, SmallPtr(s, k)).mh = e.dst
               /\ e.srcBitmap \subseteq mhs[e.dst].bitmap

\* a pass has merged a pair in which both miniheaps held live slots
C1_Witness ==
    /\ AfterPass
    /\ \E i \in Merged :
          /\ passLog[i].srcBitmap # {}
          /\ mhs[passLog[i].dst].bitmap # passLog[i].srcBitmap

\* C2: between operations, mhAllocCount - mhFreeCount is the number of
\* MiniHeap objects alive.
C2_CountersDifferByLive ==
    (\A t \in cfg.threads : pc[t] = "idle") =>
        stats.mhAllocCount - stats.mhFreeCount = Cardinality(LiveMiniheaps)

Died == {mh \in MHIds : mhs[mh].status = "live" /\ mhs'[mh].status = "dead"}

\* C3, as the spec states it: meshCount, mhAllocCount and mhFreeCount never
\* decrease.
C3_AllMonotonic ==
    [][/\ stats'.meshCount >= stats.meshCount
       /\ stats'.mhAllocCount >= stats.mhAllocCount
       /\ stats'.mhFreeCount >= stats.mhFreeCount]_vars

\* C3, as the code has it: meshCount, mhFreeCount and mhHighWaterMark never
\* decrease; mhAllocCount decreases only in a step that untracks and destroys
\* miniheaps, by one for each of them.
C3_MonotonicButAllocCount ==
    [][/\ stats'.meshCount >= stats.meshCount
       /\ stats'.mhFreeCount >= stats.mhFreeCount
       /\ stats'.mhHighWaterMark >= stats.mhHighWaterMark
       /\ stats'.mhAllocCount < stats.mhAllocCount =>
             /\ stats.mhAllocCount - stats'.mhAllocCount = Cardinality(Died)
             /\ \A mh \in Died : mh \in Tracked /\ mh \notin Tracked']_vars

\* every counter has moved, mhAllocCount both ways
C3_Witness ==
    /\ stats.meshCount > 0
    /\ stats.mhFreeCount > 0
    /\ stats.mhAllocCount < created

PassStep == \E t \in cfg.threads : pc[t] = "mesh_pass" /\ pc'[t] = "mallctl_relock"
Refused == {i \in 1 .. Len(passLog) :
               passLog[i].dstCount + passLog[i].srcCount > MaxMeshes}

\* C10: a pair whose combined mesh count would exceed MaxMeshes is left as it
\* was (both miniheaps unchanged, still tracked, their spans still theirs),
\* the pass goes on through every pair it queued, and no live miniheap ever
\* has a mesh count above MaxMeshes.
C10_RefusalIsNoOp ==
    /\ [](\A mh \in LiveMiniheaps : meshCountOf(mhs[mh]) <= MaxMeshes)
    /\ [][PassStep =>
            /\ \A i \in 1 .. Len(passLog') :
                  LET dst == passLog'[i].dst
                      src == passLog'[i].src
                  IN meshCountOf(mhs[dst]) + meshCountOf(mhs[src]) > MaxMeshes =>
                        /\ mhs'[dst] = mhs[dst] /\ mhs'[src] = mhs[src]
                        /\ {dst, src} \subseteq Tracked'
                        /\ \A s \in Spans :
                               owner[s] \in {dst, src} => owner'[s] = owner[s]
            /\ Len(passLog') = stats'.meshCount - stats.meshCount
            /\ Cardinality(Died) =
                  Cardinality({i \in 1 .. Len(passLog') :
                      meshCountOf(mhs[passLog'[i].dst])
                      + meshCountOf(mhs[passLog'[i].src]) <= MaxMeshes})]_vars

\* a pass refused one pair and merged a later one
C10_Witness ==
    /\ AfterPass
    /\ \E i \in Refused, j \in Merged : i < j

\* C4: with mesh.check_period at 1, every free of a small pointer that leaves
\* its miniheap non-empty runs a meshing pass before it returns.
C4_PeriodOneFreeMeshes ==
    (ev.op = "free.shouldMesh" /\ meshPeriod = 1) => ev.meshed

\* C5: while meshPeriod is 0, shouldMesh never returns true and no free runs
\* meshAllSizeClasses, whatever value _nextMeshCheck has, wrapped or not.
C5_PeriodZeroNeverMeshes ==
    (meshPeriod = 0 /\ ev.op \in {"free", "free.shouldMesh"}) =>
        ev.ret = 0 /\ ~ev.meshed

\* with the period at 0, a free has counted _nextMeshCheck down to exactly 0
C5_Witness ==
    /\ meshPeriod = 0
    /\ ev.op = "free.shouldMesh"
    /\ nextMeshCheck = 0

ValidOut(a) == a.oldp /\ a.oldlenp /\ a.oldlen >= SizeofSizeT
ValidIn(a) == a.newp /\ a.newlen >= SizeofSizeT
Misuse(a) ==
    \/ ~ValidOut(a)
    \/ a.name = "mesh.check_period" /\ ~ValidIn(a)
    \/ a.name \notin Names

\* C6: on every misuse (null output buffer or length pointer, short output
\* length, mesh.check_period without an input value or with a short one,
\* unknown name) mallctl returns -1 and changes neither the heap's state nor
\* the caller's output buffer; it returns 0 only for a recognised name with
\* valid arguments.
C6_MisuseRejected ==
    [][ev'.op = "mallctl" =>
          /\ Misuse(ev'.arg) =>
                /\ ev'.ret = -1
                /\ ev'.out = Untouched
                /\ UNCHANGED << mhs, owner, littleheaps, stats, meshPeriod,
                                nextMeshCheck, bigheap >>
          /\ ev'.ret = 0 => ~Misuse(ev'.arg)]_vars

\* C7: mallctl("mesh.check_period") with a valid output buffer and no input
\* value returns 0, stores meshPeriod in the buffer and leaves meshPeriod and
\* _nextMeshCheck as they were; with a valid input value v it returns 0 and
\* sets meshPeriod to v.
C7_CheckPeriodKnob ==
    [][(ev'.op = "mallctl" /\ ev'.arg.name = "mesh.check_period"
        /\ ValidOut(ev'.arg)) =>
          IF ~ev'.arg.newp
          THEN /\ ev'.ret = 0
               /\ ev'.out = meshPeriod
               /\ UNCHANGED << meshPeriod, nextMeshCheck >>
          ELSE ValidIn(ev'.arg) =>
                  ev'.ret = 0 /\ meshPeriod' = ev'.arg.newVal]_vars

\* a call another thread starts while thread a holds lock()
CallUnderLock(a, b) ==
    /\ a # b
    /\ pc[a] = "locked" /\ pc'[a] = "locked"
    /\ pc[b] = "idle" /\ ev'.t = b /\ ev'.op # "frontend"
\* the calls that return before they look at the heap: getSize(nullptr) and
\* dumpStats below level 1
ReturnsAtOnce(e) ==
    \/ e.op = "getSize" /\ e.ret = 0
    \/ e.op = "dumpStats" /\ e.ret = 0

\* C8, as the spec states it: while a thread holds lock(), no call of
\* another thread to a public operation reads or changes heap state before
\* unlock().
C8_LockBlocksEveryCall ==
    [][\A a, b \in cfg.threads : CallUnderLock(a, b) => ReturnsAtOnce(ev')]_vars

\* C8, as the code has it: while a thread holds lock(), a call of another
\* thread gets nowhere and changes nothing, except getAllocatedMiniheapCount,
\* which takes no lock and reads the arena's bitmap.
C8_LockBlocksLockingCalls ==
    [][\A a, b \in cfg.threads :
          CallUnderLock(a, b) =>
              /\ ReturnsAtOnce(ev') \/ ev'.op = "getAllocatedMiniheapCount"
              /\ UNCHANGED << mhs, created, owner, littleheaps, stats, meshPeriod,
                              nextMeshCheck, bigheap, mhWriter, bigOwner, pc >>]_vars

\* a thread has read the count of a non-empty arena while another held lock()
C8_Witness ==
    \E a, b \in cfg.threads :
        /\ a # b /\ pc[a] = "locked"
        /\ ev.t = b /\ ev.op = "getAllocatedMiniheapCount" /\ ev.ret > 0

\* the locks a thread holds across steps
Holds(t) ==
    (IF mhWriter = t \/ t \in SharedHolders THEN {"mhRWLock"} ELSE {})
    \cup (IF bigOwner = t THEN {"bigMutex"} ELSE {})
\* the lock the next statement of a thread asks for
Requests(t) ==
    IF pc[t] \in {"free_postFree", "mesh_lock", "mallctl_relock"} THEN "mhRWLock"
    ELSE IF pc[t] = "flush" /\ Marked(t) # {} THEN "mhRWLock"
    ELSE IF pc[t] \in {"free_lock_big", "getSize_lock_big"} THEN "bigMutex"
    ELSE IF pc[t] = "lock_second" THEN lockOrder[2]
    ELSE "none"

\* C9: no thread asks for mhRWLock while it holds bigMutex, and no two
\* threads wait for a lock the other holds.
C9_LockOrder ==
    /\ \A t \in cfg.threads : "bigMutex" \in Holds(t) => Requests(t) # "mhRWLock"
    /\ ~\E t, u \in cfg.threads :
          t # u /\ Requests(t) \in Holds(u) /\ Requests(u) \in Holds(t)

\* a thread inside lock() holds mhRWLock and waits for bigMutex, which
\* another thread holds
C9_Witness ==
    \E t, u \in cfg.threads :
        /\ t # u
        /\ Holds(t) = {"mhRWLock"} /\ Requests(t) = "bigMutex"
        /\ "bigMutex" \in Holds(u)

(***************************************************************************)
(* Reference counts                                                        *)
(***************************************************************************)
\* the threads that hold mh from a miniheapFor they have not yet paired with
\* an unref or a postFree
Lookups(mh) ==
    {t \in cfg.threads :
        loc[t].mh = mh /\ pc[t] \in {"free_mh", "free_postFree", "free_in_postFree",
                                     "getSize_mh"}}

\* C11: the reference count of every live miniheap is the number of lookups
\* of it that are still outstanding, so it is back at its old value after
\* every completed getSize or free, no postFree comes without a ref before
\* it, and the count is never below zero, not even across the postFree(dst)
\* of meshLocked.
C11_RefcountCountsLookups ==
    \A mh \in LiveMiniheaps :
        mhs[mh].refcount = Cardinality(Lookups(mh)) /\ mhs[mh].refcount >= 0

(***************************************************************************)
(* malloc and the big heap                                                 *)
(***************************************************************************)
\* C12: malloc(size) goes to the big heap, holding bigMutex and making no
\* miniheap, exactly when size > maxObjectSize; for size <= maxObjectSize it
\* aborts and nothing of the heap changes; miniheaps are made by
\* allocMiniheap alone.
C12_MallocRoutesBySize ==
    [][\A t \in cfg.threads :
          /\ (pc[t] = "idle" /\ pc'[t] = "malloc_big") =>
                 loc'[t].sz > maxObjectSize /\ bigOwner' = t
          /\ (ev'.t = t /\ ev'.op = "malloc") =>
                 /\ loc[t].sz > maxObjectSize /\ bigOwner = t
                 /\ bigheap' = bigheap \cup {ev'.ret} /\ ev'.ret \notin bigheap
                 /\ UNCHANGED << mhs, created, owner, littleheaps, stats >>
          /\ (ev'.t = t /\ ev'.op = "malloc.abort") =>
                 /\ ev'.ret <= maxObjectSize
                 /\ UNCHANGED << mhs, created, owner, littleheaps, stats, bigheap >>
          /\ (bigheap' \ bigheap # {}) => ev'.op = "malloc"
          /\ (created' # created) => ev'.op = "allocMiniheap"]_vars

\* a malloc above maxObjectSize has returned an object of the big heap
C12_Witness ==
    ev.op = "malloc" /\ ev.ret \in bigheap /\ bigOwner = NoThread /\ created = 0

(***************************************************************************)
(* allocMiniheap                                                           *)
(***************************************************************************)
\* an allocMiniheap step that took its miniheap from the tracker
ReusedOne(t, mh, c) ==
    /\ mh \in reusable(Heap, c)
    /\ mhs' = [mhs EXCEPT ![mh].attached = t]
    /\ UNCHANGED << owner, created, littleheaps, stats >>
\* an allocMiniheap step that made one miniheap
CreatedOne(t, mh, c) ==
    /\ mhs[mh].status = "unborn"
    /\ LiveMiniheaps' = LiveMiniheaps \cup {mh} /\ created' = created + 1
    /\ mhs'[mh].attached = t /\ mhs'[mh].bitmap = {}
    /\ \A x \in MHIds \ {mh} : mhs'[x] = mhs[x]
    /\ \E span \in Spans :
          /\ owner[span] = NoMH
          /\ owner' = [owner EXCEPT ![span] = mh]
          /\ mhs'[mh].spans = << span >>
    /\ littleheaps' = [littleheaps EXCEPT ![c].bins = @ \cup {mh}]
    /\ mh \notin littleheaps[c].bins
    /\ stats' = [stats EXCEPT !.mhAllocCount = (@ + 1) % SizeTMod]
AllocPrefersReuse ==
    ev'.op = "allocMiniheap" =>
        LET mh == ev'.ret
            c == mhs'[mh].sizeClass
        IN IF reusable(Heap, c) # {} THEN ReusedOne(ev'.t, mh, c)
           ELSE CreatedOne(ev'.t, mh, c)
\* one miniheap was ever made, of the 16-byte class, and every object
\* allocated from it has been freed
OneAllocatedAndFreed ==
    /\ created = 1
    /\ \A t \in cfg.threads : pc[t] = "idle"
    /\ \A mh \in LiveMiniheaps : isEmpty(mhs[mh])

C14_QueuedPairsAreCandidates ==
    [][PassStep =>
          \A i \in 1 .. Len(passLog') :
              /\ isMeshingCandidate(mhs[passLog'[i].first])
              /\ isMeshingCandidate(mhs[passLog'[i].second])]_vars

(***************************************************************************)
(* bigMutex                                                                *)
(***************************************************************************)
\* the step reads or writes _bigheap on behalf of thread t
BigAccess(t) ==
    /\ ev'.t = t
    /\ \/ pc[t] \in {"malloc_big", "free_big", "getSize_big"}
       \/ /\ ev'.op = "mallctl" /\ ev'.ret = 0
          /\ ev'.arg.name \in {"stats.active", "stats.allocated"}
\* a thread is between the lock and the unlock of a big-heap operation
InBigOperation(u) == pc[u] \in {"malloc_big", "free_big", "getSize_big"}

\* C15: every access to the big heap, the arenaSize reads of mallctl's
\* stats.active and stats.allocated included, is made by a thread that
\* holds bigMutex, and never while another thread is inside a big-heap
\* operation.
C15_BigHeapUnderBigMutex ==
    [][\A t \in cfg.threads :
          BigAccess(t) =>
              /\ bigOwner = t
              /\ \A u \in cfg.threads \ {t} : ~InBigOperation(u)]_vars

(***************************************************************************)
(* mhRWLock and the trackers                                               *)
(***************************************************************************)
\* the class whose tracker a thread is inside a mutating call of: postFree
\* from free, flushFreeMiniheaps from free or from the pass
InTrackerCall(t) ==
    IF pc[t] = "free_in_postFree" THEN {loc[t].szClass}
    ELSE IF pc[t] = "flush" THEN loc[t].flushing
    ELSE {}

\* C16: a thread inside a call that mutates a tracker holds mhRWLock, and no
\* two threads are inside mutating calls on the same tracker at once.
C16_TrackerSingleWriter ==
    /\ \A t \in cfg.threads : InTrackerCall(t) # {} => "mhRWLock" \in Holds(t)
    /\ \A t, u \in cfg.threads :
          t # u => InTrackerCall(t) \cap InTrackerCall(u) = {}

(***************************************************************************)
(* performMeshing                                                          *)
(***************************************************************************)
\* C17: at every call meshLocked(dst, src) of performMeshing the mesh count
\* of dst is at least that of src, and dst and src are the two heaps of the
\* queued pair, in the queued order or swapped.
C17_MergeIntoLargerMeshCount ==
    AfterPass =>
        \A i \in 1 .. Len(passLog) :
            LET e == passLog[i]
            IN /\ e.dstCount >= e.srcCount
               /\ e.dst # e.src
               /\ << e.dst, e.src >> \in {<< e.first, e.second >>, << e.second, e.first >>}

\* a pass has called meshLocked on a pair it took in the other order
C17_Witness ==
    /\ AfterPass
    /\ \E i \in 1 .. Len(passLog) :
          /\ passLog[i].dst = passLog[i].second /\ passLog[i].src = passLog[i].first
          /\ passLog[i].dstCount > passLog[i].srcCount

(***************************************************************************)
(* The trigger under concurrency                                           *)
(***************************************************************************)
\* a thread is between the load of _nextMeshCheck-- and the end of shouldMesh
InShouldMesh(t) == pc[t] \in {"free_dec", "free_test"}

\* C18: with meshPeriod > 0, _nextMeshCheck is within 1 .. meshPeriod
\* whenever no shouldMesh is under way; every relevant free takes exactly
\* one off the counter; and shouldMesh is true for exactly the free whose
\* decrement brought the counter to zero, whatever other threads do.
C18_TriggerCountsEveryFree ==
    /\ []((meshPeriod > 0 /\ pc # Aborted /\ \A t \in cfg.threads : ~InShouldMesh(t)) =>
             (1 <= nextMeshCheck /\ nextMeshCheck <= meshPeriod))
    /\ [][\A t \in cfg.threads :
            /\ (pc[t] = "free_dec" /\ pc'[t] = "free_test") =>
                   nextMeshCheck' = decrement(nextMeshCheck)
            /\ (pc[t] = "free_test" /\ pc'[t] = "idle" /\ meshPeriod > 0) =>
                   (ev'.ret = 1 <=> loc[t].nmc = 0)]_vars

(***************************************************************************)
(* The pass and its own lock                                               *)
(***************************************************************************)
\* C19: meshAllSizeClasses never waits for a lock that its own thread
\* holds, also when its flushFreeMiniheaps destroys miniheaps through
\* freeMiniheap, which takes mhRWLock exclusively.
C19_PassNeverBlocksOnItself ==
    \A t \in cfg.threads : Requests(t) \notin Holds(t)

(***************************************************************************)
(* free and the lifetime of its miniheap                                   *)
(***************************************************************************)
\* the step is thread t's mh->free(ptr) / mh->isEmpty() / mh->objectSize()
\* or its postFree(mh)
TouchesMh(t) ==
    /\ ev'.t = t
    /\ pc[t] \in {"free_mh", "free_in_postFree"}
    /\ pc'[t] # pc[t]

\* C20: a thread in free(ptr) never touches the miniheap it got from
\* miniheapFor after that miniheap has been destroyed by another thread's
\* pass, flush or freeMiniheap.
C20_FreeNeverTouchesDestroyed ==
    [][\A t \in cfg.threads : TouchesMh(t) => ~Dangling(t)]_vars

====
